---- MODULE Spec2Model ----
(***************************************************************************)
(* Model of the pytest result aggregator and e-mail reporter               *)
(* (utilities/email_reporter.py, class PytestEmailReporter) together with  *)
(* the part of the test run that feeds it (conftest.py fixtures, the data  *)
(* helper IronMan).                                                        *)
(*                                                                         *)
(* Python strings are modelled as sequences of one-character strings, so   *)
(* that splitting, the regular expression of strip_params, lower-casing    *)
(* and substring search are computed character by character.  Labels that  *)
(* the code only compares and stores (outcome labels, category names, hook *)
(* phases) are TLA+ strings.                                               *)
(***************************************************************************)
EXTENDS Integers, Sequences, FiniteSets, TLC

VARIABLES
    stats,            \* self.stats: outcome label -> count
    failure_reasons,  \* self.failure_reasons: insertion-ordered dict, as a sequence of [reason, count]
    test_executions,  \* self.test_executions: list of execution records
    start_time,       \* self.start_time (NoTime = None)
    end_time,         \* self.end_time (NoTime = None)
    log,              \* what the logger collaborator has received, in order
    now,              \* the wall clock read by datetime.now()
    raised,           \* exception that escaped the last reporter call ("none" if it returned)
    op,               \* the reporter operation performed by the last step
    delivered,        \* phase and outcome of the last report handed to pytest_runtest_logreport
    html,             \* what generate_html returned, while its caller holds it (NoHtml otherwise)
    msg,              \* classify_error harness: the argument
    category,         \* classify_error harness: the result
    pcC,              \* classify_error harness: "ready" | "done"
    item,             \* _normalize_feature harness: the collected test item
    nodeid,           \* _normalize_feature harness: the argument (the item's node id)
    feature,          \* _normalize_feature harness: the result
    pcF,              \* _normalize_feature harness: "ready" | "done"
    calls,            \* hook calls the test session has made on the reporter so far
    run,              \* test run: [idx, phase] position of the runner in its protocol
    executed,         \* test run: number of test cases whose protocol the runner has completed
    env,              \* os.environ, the report file and the SMTP server, as the dispatch finds them
    mail,             \* what the last dispatch did: rendering, SMTP connections, messages handed over
    plugins,          \* the plugin objects registered with pytest's plugin manager
    session,          \* pytest session driven by conftest.py: its position and what it has done
    check,            \* Assertions harness: the assert_* call (method, score or result, threshold)
    verdict,          \* Assertions harness: how the call ended (Pending before it)
    test_data,        \* IronMan harness: the arguments of get_multiturn_conversation_data
    multiturn,        \* IronMan harness: how the call ended (Pending before it)
    sample,           \* MetricsEvaluator harness: the sample and the scores the metric gives
    faithfulness      \* MetricsEvaluator harness: the turns scored and the final score

vars == <<stats, failure_reasons, test_executions, start_time, end_time, log, now,
          raised, op, delivered, html, msg, category, pcC, item, nodeid, feature, pcF,
          calls, run, executed, env, mail, plugins, session,
          check, verdict, test_data, multiturn, sample, faithfulness>>

reporterVars == <<stats, failure_reasons, test_executions, start_time, end_time, log, now,
                  raised, op, delivered, html>>
classifyVars == <<msg, category, pcC>>
featureVars  == <<item, nodeid, feature, pcF>>
runVars      == <<run, executed>>
mailVars     == <<env, mail>>
sessionVars  == <<plugins, session>>
utilityVars  == <<check, verdict, test_data, multiturn, sample, faithfulness>>

(***************************************************************************)
(* Bounds of the model.                                                    *)
(***************************************************************************)
MaxCalls   == 3     \* hook calls made on the reporter in one behaviour
MaxFrags   == 2     \* fragments concatenated into one failure text
MaxTally   == 5     \* outcomes recorded in one behaviour of SpecRate
MaxFailures == 3   \* outcomes recorded before the failure breakdown is rendered
MaxItems    == 3   \* items of one conversation handed to get_multiturn_conversation_data
MaxMessages == 4   \* messages of one multi-turn sample
NumTests   == 2     \* test cases of one modelled test run

(***************************************************************************)
(* Python strings.                                                         *)
(***************************************************************************)
\* the printable ASCII characters in code point order: 32..95 and 97..126
\* (code point 96, the grave accent, is not used by any modelled text)
AsciiLow ==
    <<" ","!","\"","#","$","%","&","'","(",")","*","+",",","-",".","/",
      "0","1","2","3","4","5","6","7","8","9",":",";","<","=",">","?","@",
      "A","B","C","D","E","F","G","H","I","J","K","L","M","N","O","P","Q",
      "R","S","T","U","V","W","X","Y","Z","[","\\","]","^","_">>

AsciiHigh ==
    <<"a","b","c","d","e","f","g","h","i","j","k","l","m","n","o","p","q",
      "r","s","t","u","v","w","x","y","z","{","|","}","~">>

\* ord(c)
CodePoint(c) ==
    IF c = "\n" THEN 10
    ELSE IF \E i \in 1..Len(AsciiLow) : AsciiLow[i] = c
    THEN 31 + (CHOOSE i \in 1..Len(AsciiLow) : AsciiLow[i] = c)
    ELSE 96 + (CHOOSE i \in 1..Len(AsciiHigh) : AsciiHigh[i] = c)

\* chr(n)
Chr(n) ==
    IF n = 10 THEN "\n"
    ELSE IF n <= 95 THEN AsciiLow[n - 31]
    ELSE AsciiHigh[n - 96]

\* str.lower() on one character
LowerChar(c) ==
    LET n == CodePoint(c)
    IN  IF n >= 65 /\ n <= 90 THEN Chr(n + 32) ELSE c

\* str.lower()
lower(s) == [i \in 1..Len(s) |-> LowerChar(s[i])]

\* s[i:].startswith(pat), i counted from 1
StartsAt(s, pat, i) ==
    /\ i + Len(pat) - 1 <= Len(s)
    /\ \A k \in 1..Len(pat) : s[i + k - 1] = pat[k]

\* pat in s
Contains(s, pat) == \E i \in 1..(Len(s) - Len(pat) + 1) : StartsAt(s, pat, i)

SetMin(S) == CHOOSE x \in S : \A y \in S : x <= y
SetMax(S) == CHOOSE x \in S : \A y \in S : x >= y

\* s.split(sep), sep non-empty: cut at the leftmost, non-overlapping occurrences
RECURSIVE split(_, _)
split(s, sep) ==
    LET hits == {i \in 1..(Len(s) - Len(sep) + 1) : StartsAt(s, sep, i)}
    IN  IF hits = {} THEN <<s>>
        ELSE LET i == SetMin(hits)
             IN  <<SubSeq(s, 1, i - 1)>> \o split(SubSeq(s, i + Len(sep), Len(s)), sep)

\* os.path.basename (posix): what follows the last "/"
basename(p) ==
    LET slashes == {i \in 1..Len(p) : p[i] = "/"}
    IN  IF slashes = {} THEN p ELSE SubSeq(p, SetMax(slashes) + 1, Len(p))

\* str(x) for x a string or None; a Python value is [none, text]
PyNone == [none |-> TRUE, text |-> <<>>]
PyStr(s) == [none |-> FALSE, text |-> s]
str(x) == IF x.none THEN <<"N","o","n","e">> ELSE x.text

(***************************************************************************)
(* PytestEmailReporter.classify_error                                      *)
(***************************************************************************)
classify_error_NoLower(m) ==
    IF m.none \/ m.text = <<>> THEN "UnknownError"
    ELSE LET text == m.text
         IN  IF Contains(text, <<"a","s","s","e","r","t">>) THEN "AssertionError"
             ELSE IF Contains(text, <<"t","i","m","e","o","u","t">>) THEN "TimeoutError"
             ELSE IF Contains(text, <<"n","o","t"," ","f","o","u","n","d">>) \/ Contains(text, <<"l","o","c","a","t","o","r">>) THEN "LocatorError"
             ELSE IF Contains(text, <<"i","n","v","a","l","i","d">>) \/ Contains(text, <<"d","a","t","a">>) THEN "TestDataError"
             ELSE IF Contains(text, <<"c","o","n","n","e","c","t","i","o","n">>) THEN "ConnectionError"
             ELSE IF Contains(text, <<"p","e","r","m","i","s","s","i","o","n">>) THEN "PermissionError"
             ELSE "UnknownError"

classify_error(m) ==
    IF m.none \/ m.text = <<>> THEN "UnknownError"
    ELSE LET text == lower(m.text)
         IN  IF Contains(text, <<"a","s","s","e","r","t">>) THEN "AssertionError"
             ELSE IF Contains(text, <<"t","i","m","e","o","u","t">>) THEN "TimeoutError"
             ELSE IF Contains(text, <<"n","o","t"," ","f","o","u","n","d">>) \/ Contains(text, <<"l","o","c","a","t","o","r">>) THEN "LocatorError"
             ELSE IF Contains(text, <<"i","n","v","a","l","i","d">>) \/ Contains(text, <<"d","a","t","a">>) THEN "TestDataError"
             ELSE IF Contains(text, <<"c","o","n","n","e","c","t","i","o","n">>) THEN "ConnectionError"
             ELSE IF Contains(text, <<"p","e","r","m","i","s","s","i","o","n">>) THEN "PermissionError"
             ELSE "UnknownError"

(***************************************************************************)
(* PytestEmailReporter._normalize_feature                                  *)
(***************************************************************************)
\* where \]$ can match: at the end, or just before a final newline; 0 if nowhere
ClosingBracket(s) ==
    LET n == Len(s)
    IN  IF n >= 1 /\ s[n] = "]" THEN n
        ELSE IF n >= 2 /\ s[n] = "\n" /\ s[n - 1] = "]" THEN n - 1
        ELSE 0

\* re.sub(r"\[.*\]$", "", s): the leftmost "[" from which .* (no newline) reaches
\* the closing bracket at the end; everything from it to that bracket is removed
strip_params(s) ==
    LET e == ClosingBracket(s)
        starts == {i \in 1..(e - 1) : s[i] = "[" /\ \A k \in (i + 1)..(e - 1) : s[k] # "\n"}
    IN  IF e = 0 \/ starts = {} THEN s
        ELSE SubSeq(s, 1, SetMin(starts) - 1) \o SubSeq(s, e + 1, Len(s))

normalize_feature_NoBasename(id) ==
    LET parts == split(id, <<":",":">>)
    IN  IF Len(parts) >= 3
        THEN strip_params(parts[2]) \o <<":",":">> \o strip_params(parts[3])
        ELSE IF Len(parts) = 2
        THEN parts[1] \o <<":",":">> \o strip_params(parts[2])
        ELSE strip_params(id)

normalize_feature(id) ==
    LET parts == split(id, <<":",":">>)
    IN  IF Len(parts) >= 3
        THEN strip_params(parts[2]) \o <<":",":">> \o strip_params(parts[3])
        ELSE IF Len(parts) = 2
        THEN basename(parts[1]) \o <<":",":">> \o strip_params(parts[2])
        ELSE strip_params(id)

(***************************************************************************)
(* PytestEmailReporter: construction and pytest_runtest_logreport          *)
(***************************************************************************)
NoTime == -1                          \* start_time / end_time = None
NoFailure == "None"                   \* failure_type = None

InitStats == ("passed" :> 0) @@ ("failed" :> 0) @@ ("skipped" :> 0)

\* if report.when != "call": return
IsCallPhase_Always(report) == TRUE

IsCallPhase(report) == report.when = "call"

\* self.stats[outcome] += 1, which raises KeyError for a key the dict lacks
IncrementStat(st, outcome) ==
    IF outcome \in DOMAIN st
    THEN [exc |-> "none", stats |-> [st EXCEPT ![outcome] = @ + 1]]
    ELSE [exc |-> "KeyError", stats |-> st]

CountStatus_NoHandler(st, outcome) == IncrementStat(st, outcome)

CountStatus_AsSkipped(st, outcome) ==
    LET first == IncrementStat(st, outcome)
    IN  IF first.exc = "KeyError" THEN IncrementStat(st, "skipped") ELSE first

\* try: self.stats[outcome] += 1
\* except KeyError: self.stats.setdefault(outcome, 0); self.stats[outcome] += 1
CountStatus(st, outcome) ==
    LET first == IncrementStat(st, outcome)
    IN  IF first.exc = "KeyError"
        THEN IncrementStat((outcome :> 0) @@ st, outcome)
        ELSE first

FailureType_AnyOutcome(report) == classify_error(PyStr(str(report.longrepr)))

\* failure_type = None; if outcome == "failed": failure_type = self.classify_error(str(report.longrepr))
FailureType(report) ==
    IF report.outcome = "failed"
    THEN classify_error(PyStr(str(report.longrepr)))
    ELSE NoFailure

CountFailure_Twice(fr, reason) ==
    IF \E i \in 1..Len(fr) : fr[i].reason = reason
    THEN [i \in 1..Len(fr) |->
            IF fr[i].reason = reason THEN [fr[i] EXCEPT !.count = @ + 2] ELSE fr[i]]
    ELSE Append(fr, [reason |-> reason, count |-> 2])

\* self.failure_reasons[failure_type] = self.failure_reasons.get(failure_type, 0) + 1
CountFailure(fr, reason) ==
    IF \E i \in 1..Len(fr) : fr[i].reason = reason
    THEN [i \in 1..Len(fr) |->
            IF fr[i].reason = reason THEN [fr[i] EXCEPT !.count = @ + 1] ELSE fr[i]]
    ELSE Append(fr, [reason |-> reason, count |-> 1])

\* the record appended to self.test_executions
ExecRecord(report, feat, failure_type) ==
    [nodeid  |-> report.nodeid,
     feature |-> feat,
     status  |-> report.outcome,
     reason  |-> IF failure_type = NoFailure THEN "-" ELSE failure_type]

SaveExecution_AtFront(execs, record) == <<record>> \o execs

\* self.test_executions.append(record)
SaveExecution(execs, record) == Append(execs, record)

LogEntry(level, event, reason, time) ==
    [level |-> level, event |-> event, reason |-> reason, time |-> time]

NoHtml == [rendered |-> FALSE]
NoReport == [when |-> "none", outcome |-> "none"]

pytest_runtest_logreport(report) ==
    /\ op' = "pytest_runtest_logreport"
    /\ delivered' = [when |-> report.when, outcome |-> report.outcome]
    /\ html' = NoHtml
    /\ UNCHANGED <<start_time, end_time, now>>
    /\ IF ~IsCallPhase(report)
       THEN /\ raised' = "none"
            /\ UNCHANGED <<stats, failure_reasons, test_executions, log>>
       ELSE LET counted == CountStatus(stats, report.outcome)
            IN  IF counted.exc # "none"
                THEN /\ raised' = counted.exc
                     /\ UNCHANGED <<stats, failure_reasons, test_executions, log>>
                ELSE LET feat == normalize_feature(report.nodeid)
                         failure_type == FailureType(report)
                     IN  /\ raised' = "none"
                         /\ stats' = counted.stats
                         /\ failure_reasons' =
                                IF report.outcome = "failed"
                                THEN CountFailure(failure_reasons, failure_type)
                                ELSE failure_reasons
                         /\ log' =
                                IF report.outcome = "failed"
                                THEN Append(log, LogEntry("error", "test_failed", failure_type, NoTime))
                                ELSE log
                         /\ test_executions' =
                                SaveExecution(test_executions, ExecRecord(report, feat, failure_type))

\* self.start_time = datetime.now(); the clock moves on
session_start ==
    /\ start_time' = now
    /\ log' = Append(log, LogEntry("info", "session_started", "-", now))
    /\ now' = now + 1
    /\ op' = "session_start"
    /\ raised' = "none"
    /\ html' = NoHtml
    /\ delivered' = NoReport
    /\ UNCHANGED <<stats, failure_reasons, test_executions, end_time>>

session_end ==
    /\ end_time' = now
    /\ log' = Append(log, LogEntry("info", "session_finished", "-", now))
    /\ now' = now + 1
    /\ op' = "session_end"
    /\ raised' = "none"
    /\ html' = NoHtml
    /\ delivered' = NoReport
    /\ UNCHANGED <<stats, failure_reasons, test_executions, start_time>>

(***************************************************************************)
(* PytestEmailReporter._aggregate_by_feature                               *)
(***************************************************************************)
EmptyDict == [k \in {} |-> 0]

\* d.get(k, default)
Get(d, k, default) == IF k \in DOMAIN d THEN d[k] ELSE default

\* defaultdict(lambda: {"passed": 0, "failed": 0, "skipped": 0, "total": 0})
NewCounts == ("passed" :> 0) @@ ("failed" :> 0) @@ ("skipped" :> 0) @@ ("total" :> 0)

\* feat_counts[f][st] = feat_counts[f].get(st, 0) + 1; feat_counts[f]["total"] += 1
CountExecution_TotalOfKnown(counts, st) ==
    LET c1 == (st :> (Get(counts, st, 0) + 1)) @@ counts
    IN  IF st \in {"passed", "failed", "skipped"}
        THEN [c1 EXCEPT !["total"] = @ + 1]
        ELSE c1

CountExecution(counts, st) ==
    LET c1 == (st :> (Get(counts, st, 0) + 1)) @@ counts
    IN  [c1 EXCEPT !["total"] = @ + 1]

\* the loop over self.test_executions, after its first n records
RECURSIVE FeatCounts(_, _)
FeatCounts(execs, n) ==
    IF n = 0 THEN EmptyDict
    ELSE LET prev == FeatCounts(execs, n - 1)
             f    == execs[n].feature
             cur  == Get(prev, f, NewCounts)
         IN  (f :> CountExecution(cur, execs[n].status)) @@ prev

PassRate_Truncated(passed, total) ==
    IF total = 0 THEN 0 ELSE (passed * 10000) \div total

\* round(passed / total * 100, 2) if total else 0.0, in hundredths of a percent
PassRate(passed, total) ==
    IF total = 0 THEN 0
    ELSE LET num == passed * 10000
             q   == num \div total
             r   == num % total
         IN  IF 2 * r < total THEN q
             ELSE IF 2 * r > total THEN q + 1
             ELSE IF q % 2 = 0 THEN q ELSE q + 1

aggregate_by_feature(execs) ==
    LET feat_counts == FeatCounts(execs, Len(execs))
    IN  [f \in DOMAIN feat_counts |->
            LET counts == feat_counts[f]
                total  == Get(counts, "total", 0)
                passed == Get(counts, "passed", 0)
            IN  [passed    |-> passed,
                 failed    |-> Get(counts, "failed", 0),
                 skipped   |-> Get(counts, "skipped", 0),
                 total     |-> total,
                 pass_rate |-> PassRate(passed, total)]]

(***************************************************************************)
(* PytestEmailReporter.generate_html: the values the template renders      *)
(***************************************************************************)
\* a < b for Python strings (code point order)
StrLess(a, b) ==
    \E i \in 1..(Len(a) + 1) :
        /\ i <= Len(b)
        /\ \A k \in 1..(i - 1) : a[k] = b[k]
        /\ (i = Len(a) + 1 \/ CodePoint(a[i]) < CodePoint(b[i]))

RECURSIVE SortedKeys_Descending(_)
SortedKeys_Descending(S) ==
    IF S = {} THEN <<>>
    ELSE LET m == CHOOSE x \in S : \A y \in S \ {x} : StrLess(y, x)
         IN  <<m>> \o SortedKeys_Descending(S \ {m})

\* sorted(keys)
RECURSIVE SortedKeys(_)
SortedKeys(S) ==
    IF S = {} THEN <<>>
    ELSE LET m == CHOOSE x \in S : \A y \in S \ {x} : StrLess(x, y)
         IN  <<m>> \o SortedKeys(S \ {m})

RemoveAt(s, i) == SubSeq(s, 1, i - 1) \o SubSeq(s, i + 1, Len(s))

\* sorted(items, key=lambda x: -x[1]): stable, larger counts first
SortedByCountDesc_Unsorted(items) == items

RECURSIVE SortedByCountDesc(_)
SortedByCountDesc(items) ==
    IF items = <<>> THEN <<>>
    ELSE LET best == SetMin({i \in 1..Len(items) :
                                \A j \in 1..Len(items) : items[j].count <= items[i].count})
         IN  <<items[best]>> \o SortedByCountDesc(RemoveAt(items, best))

generate_html_NoPlaceholder ==
    LET passed  == Get(stats, "passed", 0)
        failed  == Get(stats, "failed", 0)
        skipped == Get(stats, "skipped", 0)
        total   == passed + failed + skipped
        feature_summary == aggregate_by_feature(test_executions)
        keys    == SortedKeys(DOMAIN feature_summary)
    IN  [rendered          |-> TRUE,
         total             |-> total,
         passed            |-> passed,
         failed            |-> failed,
         skipped           |-> skipped,
         overall_pass_rate |-> PassRate(passed, total),
         feature_rows      |-> [i \in 1..Len(keys) |->
                                  [feature |-> keys[i], summary |-> feature_summary[keys[i]]]],
         no_tests_row      |-> FALSE,
         failure_rows      |-> SortedByCountDesc(failure_reasons),
         no_failures_row   |-> failure_reasons = <<>>,
         start_time        |-> start_time,
         end_time          |-> end_time]

generate_html ==
    LET passed  == Get(stats, "passed", 0)
        failed  == Get(stats, "failed", 0)
        skipped == Get(stats, "skipped", 0)
        total   == passed + failed + skipped
        feature_summary == aggregate_by_feature(test_executions)
        keys    == SortedKeys(DOMAIN feature_summary)
    IN  [rendered          |-> TRUE,
         total             |-> total,
         passed            |-> passed,
         failed            |-> failed,
         skipped           |-> skipped,
         overall_pass_rate |-> PassRate(passed, total),
         feature_rows      |-> [i \in 1..Len(keys) |->
                                  [feature |-> keys[i], summary |-> feature_summary[keys[i]]]],
         no_tests_row      |-> keys = <<>>,
         failure_rows      |-> SortedByCountDesc(failure_reasons),
         no_failures_row   |-> failure_reasons = <<>>,
         start_time        |-> start_time,
         end_time          |-> end_time]

GenerateHtml_StampsEnd ==
    /\ html' = generate_html
    /\ op' = "generate_html"
    /\ raised' = "none"
    /\ delivered' = NoReport
    /\ end_time' = now
    /\ UNCHANGED <<stats, failure_reasons, test_executions, start_time, log, now>>

\* html = self.generate_html(), held by the caller until its next step
GenerateHtml ==
    /\ html' = generate_html
    /\ op' = "generate_html"
    /\ raised' = "none"
    /\ delivered' = NoReport
    /\ UNCHANGED <<stats, failure_reasons, test_executions, start_time, end_time, log, now>>

(***************************************************************************)
(* The reports pytest hands to the reporter                                *)
(***************************************************************************)
Phases == {"setup", "call", "teardown"}

KnownOutcomes == {"passed", "failed", "skipped"}

\* "rerun" is the outcome label the rerun plugins put on a call-phase report
Outcomes == KnownOutcomes \cup {"rerun"}

ReportNodeIds == {<<"t",".","p","y",":",":","A",":",":","m","[","p","]">>, <<"t",".","p","y",":",":","A",":",":","m","[","q","]">>, <<"t",".","p","y",":",":","g">>}

\* report.longrepr of a failed report: a traceback text, or None
LongReprs == {PyStr(<<"a","s","s","e","r","t"," ","1"," ","=","="," ","2">>), PyNone}

Report(when, outcome, id, longrepr) ==
    [when |-> when, outcome |-> outcome, nodeid |-> id, longrepr |-> longrepr]

\* the call-phase reports: any outcome for any node id, a longrepr when it failed
CallReports ==
    {r \in [when : {"call"}, outcome : Outcomes, nodeid : ReportNodeIds, longrepr : LongReprs] :
        r.outcome # "failed" => r.longrepr = PyNone}

\* the setup and teardown reports: any outcome
OtherReports ==
    [when : Phases \ {"call"}, outcome : Outcomes, nodeid : {<<"t",".","p","y",":",":","g">>}, longrepr : {PyNone}]

Reports == CallReports \cup OtherReports

InitReporter ==
    /\ stats = InitStats
    /\ failure_reasons = <<>>
    /\ test_executions = <<>>
    /\ start_time = NoTime
    /\ end_time = NoTime
    /\ log = <<>>
    /\ now = 0
    /\ raised = "none"
    /\ op = "init"
    /\ delivered = NoReport
    /\ html = NoHtml

\* the environment variables the dispatch code reads
EnvNames == {"SMTP_HOST", "SMTP_PORT", "EMAIL_SENDER", "EMAIL_RECEIVER_LIST",
             "SENDER_EMAIL", "RECEIVER_EMAIL"}

\* an SMTP server on which every command succeeds
ServerOk == [connect |-> "ok", starttls |-> "ok", sendmail |-> "ok", quit |-> "ok"]

\* no variable set, no report file on disk
BareEnv == [environ |-> [n \in EnvNames |-> PyNone], report_file |-> "missing", smtp |-> ServerOk]

\* nothing dispatched: no rendering, no connection, no message handed to the server
NoMail == [rendered |-> 0, connections |-> 0, starttls |-> 0, sendmails |-> <<>>]

\* no pytest session under way
NoSession == [phase |-> "idle", tests |-> 0, calls |-> <<>>, exit |-> "none"]

IdleMail    == env = BareEnv /\ mail = NoMail
IdleSession == plugins = {} /\ session = NoSession

\* a harness whose call has not been made
NoCall  == [made |-> FALSE]
Pending == [done |-> FALSE]

IdleAssert    == check = NoCall /\ verdict = Pending
IdleData      == test_data = NoCall /\ multiturn = Pending
IdleScore     == sample = NoCall /\ faithfulness = Pending
IdleUtilities == IdleAssert /\ IdleData /\ IdleScore

NoItem == [file |-> <<>>, classes |-> <<>>, method |-> <<>>, param |-> PyNone]

IdleClassify == msg = PyNone /\ category = "-" /\ pcC = "idle"
IdleFeature  == item = NoItem /\ nodeid = <<>> /\ feature = <<>> /\ pcF = "idle"
IdleRun      == run = [idx |-> 0, phase |-> "idle"] /\ executed = 0 /\ calls = 0

(***************************************************************************)
(* Spec: the reporter under any sequence of hook calls                     *)
(***************************************************************************)
Init == InitReporter /\ IdleClassify /\ IdleFeature /\ IdleRun /\ IdleMail /\ IdleSession /\ IdleUtilities

LogReport ==
    /\ calls < MaxCalls
    /\ \E report \in Reports : pytest_runtest_logreport(report)
    /\ calls' = calls + 1
    /\ UNCHANGED <<classifyVars, featureVars, runVars, mailVars, sessionVars, utilityVars>>

SessionStart ==
    /\ calls < MaxCalls
    /\ session_start
    /\ calls' = calls + 1
    /\ UNCHANGED <<classifyVars, featureVars, runVars, mailVars, sessionVars, utilityVars>>

SessionEnd ==
    /\ calls < MaxCalls
    /\ session_end
    /\ calls' = calls + 1
    /\ UNCHANGED <<classifyVars, featureVars, runVars, mailVars, sessionVars, utilityVars>>

RenderSummary ==
    /\ calls < MaxCalls
    /\ GenerateHtml
    /\ calls' = calls + 1
    /\ UNCHANGED <<classifyVars, featureVars, runVars, mailVars, sessionVars, utilityVars>>

Next == LogReport \/ SessionStart \/ SessionEnd \/ RenderSummary

Spec == Init /\ [][Next]_vars

(***************************************************************************)
(* SpecClassify: classify_error applied to one failure text                *)
(***************************************************************************)
Fragments ==
    {<<"A","s","s","e","r","t","i","o","n","E","r","r","o","r",":"," ","e","x","p","e","c","t","e","d"," ","5"," ","g","o","t"," ","3">>, <<"C","o","n","n","e","c","t","i","o","n"," ","r","e","f","u","s","e","d">>, <<"T","i","m","e","o","u","t">>,
     <<"e","l","e","m","e","n","t"," ","n","o","t"," ","f","o","u","n","d">>, <<"L","O","C","A","T","O","R">>, <<"I","n","v","a","l","i","d">>, <<"t","e","s","t"," ","d","a","t","a">>,
     <<"p","e","r","m","i","s","s","i","o","n"," ","d","e","n","i","e","d">>, <<"b","o","o","m">>, <<"n","o","t"," ">>, <<"f","o","u","n","d">>}

RECURSIVE Texts(_)
Texts(k) ==
    IF k = 0 THEN {<<>>}
    ELSE Texts(k - 1) \cup {t \o f : t \in Texts(k - 1), f \in Fragments}

Messages == {PyNone} \cup {PyStr(t) : t \in Texts(MaxFrags)}

InitClassify ==
    /\ InitReporter /\ IdleFeature /\ IdleRun /\ IdleMail /\ IdleSession /\ IdleUtilities
    /\ msg \in Messages
    /\ category = "-"
    /\ pcC = "ready"

Classify ==
    /\ pcC = "ready"
    /\ category' = classify_error(msg)
    /\ pcC' = "done"
    /\ UNCHANGED <<msg, reporterVars, featureVars, calls, runVars, mailVars, sessionVars,
                   utilityVars>>

NextClassify == Classify

SpecClassify == InitClassify /\ [][NextClassify]_vars

(***************************************************************************)
(* SpecFeature: _normalize_feature applied to the node id of one item      *)
(***************************************************************************)
RECURSIVE Join(_, _)
Join(parts, sep) ==
    IF Len(parts) = 0 THEN <<>>
    ELSE IF Len(parts) = 1 THEN parts[1]
    ELSE parts[1] \o sep \o Join(Tail(parts), sep)

\* the node id of an item: file::Class::...::method[param id]
NodeId(it) ==
    LET name == it.method \o (IF it.param.none THEN <<>> ELSE <<"[">> \o it.param.text \o <<"]">>)
        path == IF it.file = <<>> THEN <<>> ELSE <<it.file>>
    IN  Join(path \o it.classes \o <<name>>, <<":",":">>)

ItemFiles   == {<<>>, <<"t","e","s","t","s","/","t","e","s","t","_","x",".","p","y">>}
ItemClasses == {<<>>, <<<<"T","e","s","t","A">>>>, <<<<"O","u","t","e","r">>, <<"I","n","n","e","r">>>>}
ItemMethods == {<<"t","e","s","t","_","b">>, <<"t","e","s","t","_","s","t","a","n","d","a","l","o","n","e">>, <<"t","e","s","t","_","s","o","l","o">>}
ItemParams  == {PyNone, PyStr(<<"p","a","r","a","m","1">>), PyStr(<<"p","a","r","a","m">>), PyStr(<<"a",":",":","b">>), PyStr(<<"x","]","y","[","z">>)}

Items == [file : ItemFiles, classes : ItemClasses, method : ItemMethods, param : ItemParams]

InitFeature ==
    /\ InitReporter /\ IdleClassify /\ IdleRun /\ IdleMail /\ IdleSession /\ IdleUtilities
    /\ item \in Items
    /\ nodeid = NodeId(item)
    /\ feature = <<>>
    /\ pcF = "ready"

Normalize ==
    /\ pcF = "ready"
    /\ feature' = normalize_feature(nodeid)
    /\ pcF' = "done"
    /\ UNCHANGED <<item, nodeid, reporterVars, classifyVars, calls, runVars, mailVars,
                   sessionVars, utilityVars>>

NextFeature == Normalize

SpecFeature == InitFeature /\ [][NextFeature]_vars

(***************************************************************************)
(* SpecRun: one test run.  For each test case the runner reports the setup *)
(* phase (where the data fixtures run), the call phase only if setup       *)
(* passed, and the teardown phase.                                         *)
(***************************************************************************)
\* the i-th test case of the run: one parameterized execution of a test method
RunNodeId(i) == <<"t",".","p","y",":",":","A",":",":","m","[">> \o <<Chr(48 + i)>> \o <<"]">>

InitRun ==
    /\ InitReporter /\ IdleClassify /\ IdleFeature /\ IdleMail /\ IdleSession /\ IdleUtilities
    /\ run = [idx |-> 1, phase |-> "setup"]
    /\ executed = 0
    /\ calls = 0

\* the fixtures of the test case run; pytest.skip or an error inside them ends the
\* phase as skipped or failed, and then the test function is not called
RunSetup ==
    /\ run.phase = "setup"
    /\ \E outcome \in KnownOutcomes, l \in LongReprs :
          /\ outcome # "failed" => l = PyNone
          /\ pytest_runtest_logreport(Report("setup", outcome, RunNodeId(run.idx), l))
          /\ run' = [run EXCEPT !.phase = IF outcome = "passed" THEN "call" ELSE "teardown"]
    /\ UNCHANGED <<executed, calls, classifyVars, featureVars, mailVars, sessionVars, utilityVars>>

\* the test function runs
RunCall ==
    /\ run.phase = "call"
    /\ \E outcome \in KnownOutcomes, l \in LongReprs :
          /\ outcome # "failed" => l = PyNone
          /\ pytest_runtest_logreport(Report("call", outcome, RunNodeId(run.idx), l))
    /\ run' = [run EXCEPT !.phase = "teardown"]
    /\ UNCHANGED <<executed, calls, classifyVars, featureVars, mailVars, sessionVars, utilityVars>>

\* the fixtures are torn down; the test case has been executed
RunTeardown ==
    /\ run.phase = "teardown"
    /\ \E outcome \in {"passed", "failed"}, l \in LongReprs :
          /\ outcome # "failed" => l = PyNone
          /\ pytest_runtest_logreport(Report("teardown", outcome, RunNodeId(run.idx), l))
    /\ executed' = executed + 1
    /\ run' = IF run.idx = NumTests
              THEN [run EXCEPT !.phase = "done"]
              ELSE [idx |-> run.idx + 1, phase |-> "setup"]
    /\ UNCHANGED <<calls, classifyVars, featureVars, mailVars, sessionVars, utilityVars>>

NextRun == RunSetup \/ RunCall \/ RunTeardown

SpecRun == InitRun /\ [][NextRun]_vars

(***************************************************************************)
(* PytestEmailReporter.send_email                                          *)
(***************************************************************************)
\* os.getenv(name, default)
getenv(name, default) == IF env.environ[name].none THEN default ELSE env.environ[name]

\* bool(x) is False: None or the empty string
Falsy(x) == x.none \/ x.text = <<>>

IsSpace(c) == c \in {" ", "\t", "\n", "\r"}

\* str.strip()
strip(s) ==
    LET keep == {i \in 1..Len(s) : ~IsSpace(s[i])}
    IN  IF keep = {} THEN <<>> ELSE SubSeq(s, SetMin(keep), SetMax(keep))

IsDigit(c) == c \in {"0", "1", "2", "3", "4", "5", "6", "7", "8", "9"}

\* the value of a run of decimal digits (underscores between digits are skipped)
RECURSIVE DigitsValue(_)
DigitsValue(d) ==
    IF d = <<>> THEN 0
    ELSE LET front == SubSeq(d, 1, Len(d) - 1)
             c     == d[Len(d)]
         IN  IF c = "_" THEN DigitsValue(front) ELSE 10 * DigitsValue(front) + (CodePoint(c) - 48)

\* int(x): TypeError for None; for a string, surrounding whitespace is dropped, one
\* sign is allowed, the rest must be digits with single underscores between digits
int(x) ==
    IF x.none THEN [error |-> "TypeError", value |-> 0]
    ELSE LET t        == strip(x.text)
             signed   == t # <<>> /\ t[1] \in {"+", "-"}
             body     == IF signed THEN Tail(t) ELSE t
             wellFormed ==
                 /\ body # <<>>
                 /\ \A i \in 1..Len(body) :
                       \/ IsDigit(body[i])
                       \/ /\ body[i] = "_" /\ i > 1 /\ i < Len(body)
                          /\ IsDigit(body[i - 1]) /\ IsDigit(body[i + 1])
         IN  IF ~wellFormed THEN [error |-> "ValueError", value |-> 0]
             ELSE [error |-> "none",
                   value |-> IF signed /\ t[1] = "-" THEN 0 - DigitsValue(body) ELSE DigitsValue(body)]

\* [r.strip() for r in raw.split(",") if r.strip()]
receiver_list(raw) ==
    LET parts == split(raw, <<",">>)
    IN  SelectSeq([i \in 1..Len(parts) |-> strip(parts[i])], LAMBDA r : r # <<>>)

\* smtplib.SMTP(host, port) connects: port 0 means the default port 25, a port
\* outside 1..65535 is refused by the socket layer, otherwise the server decides
Connects(port) ==
    LET p == IF port = 0 THEN 25 ELSE port
    IN  p >= 1 /\ p <= 65535 /\ env.smtp.connect = "ok"

\* the MIME message: sender and recipient headers, the rendered summary as the
\* HTML body, and the number of attached files
Message(sender, receivers, summary, attached) ==
    [From |-> sender, To |-> Join(receivers, <<","," ">>), body |-> summary, attachments |-> attached]

\* one server.sendmail(sender, receivers, msg.as_string()) call; tls tells whether
\* the connection it went over had been upgraded by STARTTLS
SendmailCall(sender, receivers, message, tls) ==
    [sender |-> sender, receivers |-> receivers, message |-> message, tls |-> tls]

\* lines 332-340: the report file is attached when it can be read; a file that
\* exists but cannot be read is logged; a file that does not exist is passed over
attach_report ==
    [attached |-> IF env.report_file = "readable" THEN 1 ELSE 0,
     entries  |-> IF env.report_file = "unreadable"
                  THEN <<LogEntry("warning", "attach_failed", "-", NoTime)>>
                  ELSE <<>>]

SmtpFailed == <<LogEntry("error", "email_failed", "-", NoTime)>>

smtp_session_TlsAborts(port, sender, receivers, message) ==
    LET tls    == env.smtp.starttls = "ok"
        handed == <<SendmailCall(sender, receivers, message, tls)>>
    IN  IF ~Connects(port)
        THEN [entries |-> SmtpFailed, connections |-> 1, starttls |-> 0, sendmails |-> <<>>]
        ELSE IF ~tls
        THEN [entries |-> SmtpFailed, connections |-> 1, starttls |-> 1, sendmails |-> <<>>]
        ELSE IF env.smtp.sendmail # "ok"
        THEN [entries |-> SmtpFailed, connections |-> 1, starttls |-> 1, sendmails |-> handed]
        ELSE [entries |-> <<LogEntry("info", "email_sent", "-", NoTime)>>
                            \o (IF env.smtp.quit = "ok" THEN <<>> ELSE SmtpFailed),
              connections |-> 1, starttls |-> 1, sendmails |-> handed]

smtp_session_Retries(port, sender, receivers, message) ==
    LET tls    == env.smtp.starttls = "ok"
        tlsLog == IF tls THEN <<>> ELSE <<LogEntry("warning", "tls_not_supported", "-", NoTime)>>
        handed == <<SendmailCall(sender, receivers, message, tls)>>
    IN  IF ~Connects(port)
        THEN [entries |-> SmtpFailed, connections |-> 1, starttls |-> 0, sendmails |-> <<>>]
        ELSE IF env.smtp.sendmail # "ok"
        THEN [entries |-> tlsLog \o SmtpFailed, connections |-> 1, starttls |-> 1,
              sendmails |-> handed \o handed]
        ELSE [entries |-> tlsLog \o <<LogEntry("info", "email_sent", "-", NoTime)>>
                            \o (IF env.smtp.quit = "ok" THEN <<>> ELSE SmtpFailed),
              connections |-> 1, starttls |-> 1, sendmails |-> handed]

\* lines 343-353: connect, try STARTTLS, hand the message over, leave the with
\* block (QUIT); the result is what was logged and what the server was asked
smtp_session(port, sender, receivers, message) ==
    LET tls    == env.smtp.starttls = "ok"
        tlsLog == IF tls THEN <<>> ELSE <<LogEntry("warning", "tls_not_supported", "-", NoTime)>>
        handed == <<SendmailCall(sender, receivers, message, tls)>>
    IN  IF ~Connects(port)
        THEN [entries |-> SmtpFailed, connections |-> 1, starttls |-> 0, sendmails |-> <<>>]
        ELSE IF env.smtp.sendmail # "ok"
        THEN [entries |-> tlsLog \o SmtpFailed, connections |-> 1, starttls |-> 1,
              sendmails |-> handed]
        ELSE [entries |-> tlsLog \o <<LogEntry("info", "email_sent", "-", NoTime)>>
                            \o (IF env.smtp.quit = "ok" THEN <<>> ELSE SmtpFailed),
              connections |-> 1, starttls |-> 1, sendmails |-> handed]

send_email ==
    LET smtp_host == getenv("SMTP_HOST", PyNone)
        smtp_port == int(getenv("SMTP_PORT", PyStr(<<"2","5">>)))
        sender    == getenv("EMAIL_SENDER", PyNone)
        receivers == receiver_list(getenv("EMAIL_RECEIVER_LIST", PyStr(<<>>)).text)
        part      == attach_report
        message   == Message(sender.text, receivers, generate_html, part.attached)
        sent      == smtp_session(smtp_port.value, sender.text, receivers, message)
    IN  /\ op' = "send_email"
        /\ delivered' = NoReport
        /\ html' = NoHtml
        /\ UNCHANGED <<stats, failure_reasons, test_executions, start_time, end_time, now, env>>
        /\ IF smtp_port.error # "none"
           THEN \* int() raises before anything else is done
                /\ raised' = smtp_port.error
                /\ mail' = NoMail
                /\ UNCHANGED log
           ELSE IF Falsy(smtp_host) \/ Falsy(sender) \/ receivers = <<>>
           THEN /\ raised' = "none"
                /\ mail' = NoMail
                /\ log' = Append(log, LogEntry("error", "smtp_config_missing", "-", NoTime))
           ELSE /\ raised' = "none"
                /\ mail' = [rendered |-> 1, connections |-> sent.connections,
                            starttls |-> sent.starttls, sendmails |-> sent.sendmails]
                /\ log' = log \o part.entries \o sent.entries

(***************************************************************************)
(* SpecSend: one dispatch of the report in any environment                 *)
(***************************************************************************)
SmtpHosts     == {PyNone, PyStr(<<>>), PyStr(<<"h">>)}
SmtpPorts     == {PyNone, PyStr(<<"5","8","7">>), PyStr(<<"a","b","c">>), PyStr(<<"7","0","0","0","0">>)}
Senders       == {PyNone, PyStr(<<"s","@","x">>)}
ReceiverLists == {PyNone, PyStr(<<>>), PyStr(<<" ",","," ",",">>), PyStr(<<" ","a","@","x"," ",",",","," ","b","@","y">>)}
ReportFiles   == {"missing", "readable", "unreadable"}
Servers       == [connect : {"ok", "fail"}, starttls : {"ok", "fail"},
                  sendmail : {"ok", "fail"}, quit : {"ok", "fail"}]

\* the environments of a reporter dispatch
SendEnvs ==
    {[environ |-> [n \in EnvNames |->
                     CASE n = "SMTP_HOST" -> h
                       [] n = "SMTP_PORT" -> p
                       [] n = "EMAIL_SENDER" -> s
                       [] n = "EMAIL_RECEIVER_LIST" -> r
                       [] OTHER -> PyNone],
      report_file |-> f, smtp |-> srv] :
        h \in SmtpHosts, p \in SmtpPorts, s \in Senders, r \in ReceiverLists,
        f \in ReportFiles, srv \in Servers}

SendReports ==
    {Report("call", "passed", <<"t",".","p","y",":",":","g">>, PyNone),
     Report("call", "failed", <<"t",".","p","y",":",":","A",":",":","m","[","p","]">>, PyStr(<<"a","s","s","e","r","t"," ","1"," ","=","="," ","2">>))}

InitSend ==
    /\ InitReporter /\ IdleClassify /\ IdleFeature /\ IdleRun /\ IdleSession /\ IdleUtilities
    /\ env \in SendEnvs
    /\ mail = NoMail

\* at most one outcome is recorded before the dispatch
RecordBeforeSend ==
    /\ op = "init"
    /\ \E report \in SendReports : pytest_runtest_logreport(report)
    /\ UNCHANGED <<classifyVars, featureVars, calls, runVars, mailVars, sessionVars, utilityVars>>

SendEmail ==
    /\ op # "send_email"
    /\ send_email
    /\ UNCHANGED <<classifyVars, featureVars, calls, runVars, sessionVars, utilityVars>>

NextSend == RecordBeforeSend \/ SendEmail

SpecSend == InitSend /\ [][NextSend]_vars

(***************************************************************************)
(* Properties                                                              *)
(***************************************************************************)
RECURSIVE SumOver(_, _)
\* the sum of val[k] over the keys k in S
SumOver(val, S) ==
    IF S = {} THEN 0
    ELSE LET k == CHOOSE x \in S : TRUE
         IN  val[k] + SumOver(val, S \ {k})

FeatureSummary == aggregate_by_feature(test_executions)

FeatureTotals == [f \in DOMAIN FeatureSummary |-> FeatureSummary[f].total]

RecordedWith(status) == {k \in 1..Len(test_executions) : test_executions[k].status = status}

\* C1: after any sequence of pytest_runtest_logreport calls, the 'total' fields of
\* the entries _aggregate_by_feature returns add up to len(test_executions).
C1_TotalsSumToRecorded ==
    SumOver(FeatureTotals, DOMAIN FeatureTotals) = Len(test_executions)

\* three outcomes recorded, two of them under one feature and one under another
C1_Witness ==
    /\ Len(test_executions) = 3
    /\ Cardinality(DOMAIN FeatureSummary) = 2
    /\ \E f \in DOMAIN FeatureSummary : FeatureSummary[f].total = 2
    /\ RecordedWith("rerun") # {}

\* C2: whatever the outcome values of the accepted call-phase reports, every
\* FeatureSummary has total = passed + failed + skipped with all four counts
\* non-negative.
C2_TotalIsSumOfThree ==
    \A f \in DOMAIN FeatureSummary :
        LET s == FeatureSummary[f]
        IN  /\ s.total = s.passed + s.failed + s.skipped
            /\ s.passed >= 0 /\ s.failed >= 0 /\ s.skipped >= 0 /\ s.total >= 0

\* C3: in every reachable state the values of failure_reasons add up to the number
\* of recorded outcomes whose status is 'failed'.
C3_FailureCountsSumToFailed ==
    SumOver([i \in 1..Len(failure_reasons) |-> failure_reasons[i].count],
            1..Len(failure_reasons))
        = Cardinality(RecordedWith("failed"))

\* failures of two categories, one of them counted twice, next to a passed outcome
C3_Witness ==
    /\ Len(failure_reasons) = 2
    /\ Cardinality(RecordedWith("failed")) = 2
    /\ RecordedWith("skipped") # {}

\* C4: the 'Total Tests' value generate_html renders equals the number of recorded
\* outcomes and the sum of the per-feature totals of the same report.
C4_RenderedTotalFaithful ==
    op = "generate_html" =>
        /\ html.total = Len(test_executions)
        /\ html.total = SumOver([i \in 1..Len(html.feature_rows) |->
                                    html.feature_rows[i].summary.total],
                                1..Len(html.feature_rows))

PriorityOrder ==
    << [category |-> "AssertionError",  keywords |-> {<<"a","s","s","e","r","t">>}],
       [category |-> "TimeoutError",    keywords |-> {<<"t","i","m","e","o","u","t">>}],
       [category |-> "LocatorError",    keywords |-> {<<"n","o","t"," ","f","o","u","n","d">>, <<"l","o","c","a","t","o","r">>}],
       [category |-> "TestDataError",   keywords |-> {<<"i","n","v","a","l","i","d">>, <<"d","a","t","a">>}],
       [category |-> "ConnectionError", keywords |-> {<<"c","o","n","n","e","c","t","i","o","n">>}],
       [category |-> "PermissionError", keywords |-> {<<"p","e","r","m","i","s","s","i","o","n">>}] >>

IsLetter(c) ==
    LET n == CodePoint(c) IN (n >= 65 /\ n <= 90) \/ (n >= 97 /\ n <= 122)

\* the same character, or the same letter in the other case
SameIgnoringCase(a, b) ==
    \/ a = b
    \/ /\ IsLetter(a) /\ IsLetter(b)
       /\ (CodePoint(a) - CodePoint(b) = 32 \/ CodePoint(b) - CodePoint(a) = 32)

OccursIgnoringCase(text, kw) ==
    \E i \in 1..(Len(text) - Len(kw) + 1) :
        \A k \in 1..Len(kw) : SameIgnoringCase(text[i + k - 1], kw[k])

MatchingRanks(text) ==
    {i \in 1..Len(PriorityOrder) :
        \E kw \in PriorityOrder[i].keywords : OccursIgnoringCase(text, kw)}

FirstCategory(m) ==
    IF m.none \/ m.text = <<>> \/ MatchingRanks(m.text) = {}
    THEN "UnknownError"
    ELSE PriorityOrder[SetMin(MatchingRanks(m.text))].category

\* C6: classify_error returns the first category, in the fixed priority order,
\* one of whose keywords occurs case-insensitively in the text, and UnknownError
\* for an empty or absent text or one with no keyword.
C6_FirstMatchWins ==
    pcC = "done" => category = FirstCategory(msg)

\* a text in mixed case holding keywords of two categories got the earlier one
C6_Witness ==
    /\ pcC = "done"
    /\ msg = PyStr(<<"C","o","n","n","e","c","t","i","o","n"," ","r","e","f","u","s","e","d">> \o <<"I","n","v","a","l","i","d">>)
    /\ MatchingRanks(msg.text) = {4, 5}
    /\ category = "TestDataError"

\* C7, the claim's wording: strip removes a trailing bracketed suffix
StripBracketSuffix(s) ==
    LET opens == {i \in 1..Len(s) : s[i] = "["}
    IN  IF s # <<>> /\ s[Len(s)] = "]" /\ opens # {}
        THEN SubSeq(s, 1, SetMin(opens) - 1)
        ELSE s

\* the path component after the last "/"
PathTail(p) ==
    CHOOSE t \in {SubSeq(p, i, Len(p)) : i \in 1..(Len(p) + 1)} :
        /\ \A k \in 1..Len(t) : t[k] # "/"
        /\ Len(t) = Len(p) \/ p[Len(p) - Len(t)] = "/"

ExpectedFeature(id) ==
    LET seg == split(id, <<":",":">>)
    IN  CASE Len(seg) >= 3 -> StripBracketSuffix(seg[2]) \o <<":",":">> \o StripBracketSuffix(seg[3])
          [] Len(seg) = 2  -> PathTail(seg[1]) \o <<":",":">> \o StripBracketSuffix(seg[2])
          [] OTHER         -> StripBracketSuffix(id)

C8_ParamRunsShareFeature ==
    (pcF = "done" /\ item.file # <<>> /\ Len(item.classes) = 1) =>
        feature = item.classes[1] \o <<":",":">> \o item.method

\* C9: a setup or teardown report, whatever its outcome, leaves stats,
\* failure_reasons, test_executions, start_time and end_time unchanged and logs
\* nothing.
C9_OtherPhasesIgnored ==
    [][ (op' = "pytest_runtest_logreport" /\ delivered'.when # "call")
        => UNCHANGED <<stats, failure_reasons, test_executions, start_time, end_time, log>>
      ]_vars

\* a failed setup report arrived after an outcome was recorded and changed nothing
C9_Witness ==
    /\ op = "pytest_runtest_logreport"
    /\ delivered = [when |-> "setup", outcome |-> "failed"]
    /\ Len(test_executions) = 1
    /\ stats["failed"] = 0
    /\ log = <<>>

\* C10: by the end of the run exactly one TestOutcome is recorded for every test
\* case the runner executed, also for one skipped or failed in its setup phase.
C10_OneOutcomePerTestCase ==
    run.phase = "done" =>
        \A i \in 1..NumTests :
            Cardinality({k \in 1..Len(test_executions) :
                            test_executions[k].nodeid = RunNodeId(i)}) = 1

\* C17: generate_html is a pure read: it leaves stats, failure_reasons,
\* test_executions, start_time and end_time unchanged, and a second call with no
\* report or session hook in between returns the same output as the first.
C17_RenderIsPureRead ==
    [][ op' = "generate_html" =>
          /\ UNCHANGED <<stats, failure_reasons, test_executions, start_time, end_time>>
          /\ op = "generate_html" => html' = html
      ]_vars

\* a report of recorded outcomes and a started session has been rendered
C17_Witness ==
    /\ op = "generate_html"
    /\ html.rendered
    /\ Len(test_executions) = 1
    /\ start_time # NoTime
    /\ html.start_time = start_time

\* C18: with no outcome recorded (session_start and session_end called or not)
\* generate_html completes and renders total, passed, failed, skipped 0, overall
\* pass rate 0.0, the 'No tests executed' row and the no-failures row.
C18_EmptyReportRenders ==
    (op = "generate_html" /\ test_executions = <<>>) =>
        /\ raised = "none"
        /\ html.rendered
        /\ html.total = 0 /\ html.passed = 0 /\ html.failed = 0 /\ html.skipped = 0
        /\ html.overall_pass_rate = 0
        /\ html.feature_rows = <<>> /\ html.no_tests_row
        /\ html.failure_rows = <<>> /\ html.no_failures_row

\* the report of a reporter that was only constructed has been rendered
C18_Witness ==
    /\ op = "generate_html"
    /\ test_executions = <<>>
    /\ start_time = NoTime /\ end_time = NoTime
    /\ html.no_tests_row /\ html.no_failures_row

(***************************************************************************)
(* SpecRate: outcomes of two features are recorded and the summary is      *)
(* rendered, to tally enough outcomes for the pass rates                   *)
(***************************************************************************)
TallyNodeIds == {<<"t",".","p","y",":",":","A",":",":","m","[","p","]">>, <<"t",".","p","y",":",":","g">>}

\* a pass rate tells passed from the rest; 'rerun' is in neither the run totals
\* nor the passed count, but in the feature totals
TallyOutcomes == {"passed", "skipped", "rerun"}

Tally ==
    /\ Len(test_executions) < MaxTally
    /\ \E o \in TallyOutcomes, id \in TallyNodeIds :
          pytest_runtest_logreport(Report("call", o, id, PyNone))
    /\ UNCHANGED <<classifyVars, featureVars, calls, runVars, mailVars, sessionVars, utilityVars>>

RenderTally ==
    /\ GenerateHtml
    /\ UNCHANGED <<classifyVars, featureVars, calls, runVars, mailVars, sessionVars, utilityVars>>

NextRate == Tally \/ RenderTally

SpecRate == Init /\ [][NextRate]_vars

\* rate, in hundredths of a percent, is passed/total*100 rounded to 2 decimals
\* (0.0 when total is 0) and lies in [0, 100]
IsRoundedRate(rate, passed, total) ==
    /\ rate >= 0 /\ rate <= 10000
    /\ total = 0 => rate = 0
    /\ total > 0 =>
          LET err == rate * total - passed * 10000
          IN  2 * err <= total /\ 2 * (0 - err) <= total
    /\ (passed = 2 /\ total = 3) => rate = 6667
    /\ (passed = 4 /\ total = 5) => rate = 8000
    /\ (passed = 2 /\ total = 2) => rate = 10000

\* C19: the per-feature pass_rate and the overall pass rate equal passed/total*100
\* rounded to 2 decimals, are 0.0 when total is 0 and lie in [0, 100]; 2 of 3
\* gives 66.67, 4 of 5 gives 80.0, 2 of 2 gives 100.0.
C19_PassRates ==
    /\ \A f \in DOMAIN FeatureSummary :
          IsRoundedRate(FeatureSummary[f].pass_rate, FeatureSummary[f].passed,
                        FeatureSummary[f].total)
    /\ op = "generate_html" =>
          IsRoundedRate(html.overall_pass_rate, html.passed, html.total)

\* the rendered report of 5 outcomes: 4 passed overall (80.0), one feature with 2
\* passed of 3 (66.67), the other with 2 of 2 (100.0)
C19_Witness ==
    /\ op = "generate_html"
    /\ html.passed = 4 /\ html.total = 5 /\ html.overall_pass_rate = 8000
    /\ \E i \in 1..Len(html.feature_rows) :
          LET s == html.feature_rows[i].summary
          IN  s.passed = 2 /\ s.total = 3 /\ s.pass_rate = 6667
    /\ \E i \in 1..Len(html.feature_rows) :
          LET s == html.feature_rows[i].summary
          IN  s.passed = 2 /\ s.total = 2 /\ s.pass_rate = 10000


(***************************************************************************)
(* Properties of send_email                                                *)
(***************************************************************************)
\* how many entries of the given level and event the logger has received
Logged(level, event) ==
    Cardinality({i \in 1..Len(log) : log[i].level = level /\ log[i].event = event})

\* the entries the logger has received from send_email, by level
LoggedAt(level) ==
    Cardinality({i \in 1..Len(log) :
                    /\ log[i].level = level
                    /\ log[i].event \in {"smtp_config_missing", "attach_failed",
                                         "tls_not_supported", "email_sent", "email_failed"}})

\* the recipients EMAIL_RECEIVER_LIST names: its comma-separated entries, trimmed,
\* the empty ones dropped, in their order
RECURSIVE Recipients(_, _)
Recipients(raw, cur) ==
    IF raw = <<>> THEN (IF strip(cur) = <<>> THEN <<>> ELSE <<strip(cur)>>)
    ELSE IF Head(raw) = ","
    THEN (IF strip(cur) = <<>> THEN <<>> ELSE <<strip(cur)>>) \o Recipients(Tail(raw), <<>>)
    ELSE Recipients(Tail(raw), Append(cur, Head(raw)))

NamedRecipients ==
    IF env.environ["EMAIL_RECEIVER_LIST"].none THEN <<>>
    ELSE Recipients(env.environ["EMAIL_RECEIVER_LIST"].text, <<>>)

ConfigMissing ==
    \/ Falsy(env.environ["SMTP_HOST"])
    \/ Falsy(env.environ["EMAIL_SENDER"])
    \/ NamedRecipients = <<>>

\* C12: send_email returns normally in every environment, for every state of the
\* report file and every behaviour of the SMTP server.
C12_NeverRaises == op = "send_email" => raised = "none"

\* C13: with the host, the sender or every recipient missing, send_email logs one
\* error and returns without rendering, connecting or sending; otherwise what it
\* hands to the server is addressed to the named recipients, in their order.
C13_MissingConfigAborts ==
    op = "send_email" =>
        IF ConfigMissing
        THEN /\ raised = "none"
             /\ Logged("error", "smtp_config_missing") = 1
             /\ LoggedAt("error") = 1 /\ LoggedAt("warning") = 0 /\ LoggedAt("info") = 0
             /\ mail = NoMail
        ELSE \A i \in 1..Len(mail.sendmails) :
                /\ mail.sendmails[i].receivers = NamedRecipients
                /\ mail.sendmails[i].message.To = Join(NamedRecipients, <<","," ">>)

\* the dispatch gets as far as opening an SMTP connection: SMTP_PORT parses and the
\* host, the sender and a recipient are configured
DispatchProceeds ==
    /\ int(getenv("SMTP_PORT", PyStr(<<"2","5">>))).error = "none"
    /\ ~ConfigMissing

ConnectionOpens == DispatchProceeds /\ Connects(int(getenv("SMTP_PORT", PyStr(<<"2","5">>))).value)

\* C14: when STARTTLS fails on the open connection, send_email logs a warning and
\* still calls sendmail once, on that same unencrypted connection; unless the send
\* or the closing of the session fails too, no error is logged.
C14_TlsFallback ==
    (op = "send_email" /\ ConnectionOpens /\ env.smtp.starttls = "fail") =>
        /\ raised = "none"
        /\ Logged("warning", "tls_not_supported") = 1
        /\ mail.connections = 1 /\ mail.starttls = 1
        /\ Len(mail.sendmails) = 1
        /\ ~mail.sendmails[1].tls
        /\ (env.smtp.sendmail = "ok" /\ env.smtp.quit = "ok") =>
              (LoggedAt("error") = 0 /\ Logged("info", "email_sent") = 1)

C14_Witness ==
    /\ op = "send_email" /\ ConnectionOpens /\ env.smtp.starttls = "fail"
    /\ env.smtp.sendmail = "ok" /\ env.smtp.quit = "ok"
    /\ Len(mail.sendmails) = 1
    /\ mail.sendmails[1].receivers = <<<<"a","@","x">>, <<"b","@","y">>>>
    /\ ~mail.sendmails[1].tls
    /\ Logged("warning", "tls_not_supported") = 1
    /\ Logged("info", "email_sent") = 1

\* C15: one send_email call opens at most one SMTP connection and calls sendmail
\* at most once; when connecting or sending fails one error is logged and the
\* success line is not; the success line is logged only after sendmail returned.
C15_SingleAttempt ==
    op = "send_email" =>
        /\ mail.connections <= 1
        /\ Len(mail.sendmails) <= 1
        /\ (DispatchProceeds /\ (~ConnectionOpens \/ env.smtp.sendmail = "fail")) =>
              /\ Logged("error", "email_failed") = 1
              /\ Logged("info", "email_sent") = 0
        /\ Logged("info", "email_sent") <= 1
        /\ Logged("info", "email_sent") = 1 =>
              (Len(mail.sendmails) = 1 /\ env.smtp.sendmail = "ok")

C15_Witness ==
    /\ op = "send_email" /\ ConnectionOpens /\ env.smtp.sendmail = "fail"
    /\ mail.connections = 1
    /\ Len(mail.sendmails) = 1
    /\ Logged("error", "email_failed") = 1
    /\ Logged("info", "email_sent") = 0
    /\ test_executions # <<>>

\* C16: with the report file missing or unreadable, send_email logs a warning and
\* sends the message with the HTML summary and no attachment; with the file
\* readable the message carries one attachment; never more than one.
C16_AttachmentPolicy ==
    (op = "send_email" /\ DispatchProceeds) =>
        /\ raised = "none"
        /\ ConnectionOpens => Len(mail.sendmails) = 1
        /\ \A i \in 1..Len(mail.sendmails) :
              /\ mail.sendmails[i].message.body.rendered
              /\ mail.sendmails[i].message.attachments
                    = (IF env.report_file = "readable" THEN 1 ELSE 0)
        /\ env.report_file \in {"missing", "unreadable"} =>
              Logged("warning", "attach_failed") = 1
        /\ env.report_file = "readable" => Logged("warning", "attach_failed") = 0

(***************************************************************************)
(* conftest.py: the pytest session                                         *)
(*                                                                         *)
(* conftest.py constructs no PytestEmailReporter; the reporter variables   *)
(* stand for the reporter a session would feed, and keep their initial     *)
(* values while no hook of it is called.  log is the "pytest_logger".      *)
(***************************************************************************)
ReporterPlugin == "PytestEmailReporter"

\* pytest delivers a hook call to the plugins registered with its plugin manager
Registered(plugin) == plugin \in plugins

\* pytest_configure: creates the allure directory and sets the pytest-html
\* metadata; it registers no plugin
pytest_configure ==
    /\ plugins' = plugins
    /\ session' = [session EXCEPT !.phase = "running"]

\* receivers of send_email_with_report, a list of Python values: the stripped
\* entries of EMAIL_RECEIVER_LIST (empty ones kept), or [RECEIVER_EMAIL]
conftest_receivers ==
    LET raw == getenv("EMAIL_RECEIVER_LIST", PyNone)
    IN  IF ~Falsy(raw)
        THEN LET parts == split(raw.text, <<",">>)
             IN  [i \in 1..Len(parts) |-> PyStr(strip(parts[i]))]
        ELSE <<getenv("RECEIVER_EMAIL", PyNone)>>

SummaryFailed == <<LogEntry("info", "email_error", "-", NoTime)>>

\* lines 186-201: SMTP(host, port) connects only for a non-empty host; ehlo on an
\* unconnected object raises; sendmail raises on a None sender before anything is
\* sent; the success line follows the with block, so it needs QUIT to succeed
conftest_smtp_session(host, port, sender, receivers, message) ==
    LET tls    == env.smtp.starttls = "ok"
        tlsLog == <<LogEntry("info", IF tls THEN "tls_established" ELSE "tls_not_supported",
                             "-", NoTime)>>
        handed == <<SendmailCall(sender, receivers, message, tls)>>
    IN  IF Falsy(host)
        THEN [entries |-> SummaryFailed, connections |-> 0, starttls |-> 0, sendmails |-> <<>>]
        ELSE IF ~Connects(port)
        THEN [entries |-> SummaryFailed, connections |-> 1, starttls |-> 0, sendmails |-> <<>>]
        ELSE IF sender.none \/ env.smtp.sendmail # "ok" \/ env.smtp.quit # "ok"
        THEN [entries |-> tlsLog \o SummaryFailed, connections |-> 1, starttls |-> 1,
              sendmails |-> handed]
        ELSE [entries |-> tlsLog \o <<LogEntry("info", "email_sent", "-", NoTime)>>,
              connections |-> 1, starttls |-> 1, sendmails |-> handed]

\* send_email_with_report(logger): the exception that leaves it ("none" if it
\* returns), what it logs and what it asks of the SMTP server
send_email_with_report ==
    LET smtp_host == getenv("SMTP_HOST", PyNone)
        smtp_port == int(getenv("SMTP_PORT", PyNone))
        sender    == getenv("SENDER_EMAIL", PyNone)
        receivers == conftest_receivers
        joinable  == \A i \in 1..Len(receivers) : ~receivers[i].none
        addresses == [i \in 1..Len(receivers) |-> receivers[i].text]
        message   == [From |-> sender, To |-> Join(addresses, <<","," ">>), body |-> NoHtml,
                      attachments |-> 1]
        sent      == conftest_smtp_session(smtp_host, smtp_port.value, sender, addresses, message)
        nothing   == [entries |-> <<>>, mail |-> NoMail]
    IN  IF smtp_port.error # "none"
        THEN nothing @@ [raised |-> smtp_port.error]
        ELSE IF ~joinable
        THEN nothing @@ [raised |-> "TypeError"]
        ELSE IF env.report_file = "missing"
        THEN nothing @@ [raised |-> "FileNotFoundError"]
        ELSE IF env.report_file = "unreadable"
        THEN nothing @@ [raised |-> "OSError"]
        ELSE [raised |-> "none", entries |-> sent.entries,
              mail |-> [rendered |-> 0, connections |-> sent.connections,
                        starttls |-> sent.starttls, sendmails |-> sent.sendmails]]

\* pytest_terminal_summary: one log line, then send_email_with_report; an
\* exception leaving the hook is an internal error of the pytest run
pytest_terminal_summary ==
    LET d == send_email_with_report
    IN  /\ log' = Append(log, LogEntry("info", "summary_started", "-", NoTime)) \o d.entries
        /\ mail' = d.mail
        /\ raised' = d.raised
        /\ op' = "pytest_terminal_summary"
        /\ delivered' = NoReport
        /\ html' = NoHtml
        /\ session' = [session EXCEPT !.phase = "done",
                                      !.exit = IF d.raised = "none" THEN "tests" ELSE "internal_error"]
        /\ UNCHANGED <<stats, failure_reasons, test_executions, start_time, end_time, now,
                       env, plugins>>

(***************************************************************************)
(* SpecSession: a test run driven by conftest.py                           *)
(***************************************************************************)
SessionEnvs ==
    {[environ |-> [n \in EnvNames |->
                     CASE n = "SMTP_HOST" -> h
                       [] n = "SMTP_PORT" -> p
                       [] n = "SENDER_EMAIL" -> s
                       [] n = "EMAIL_RECEIVER_LIST" -> r
                       [] n = "RECEIVER_EMAIL" -> r1
                       [] OTHER -> PyNone],
      report_file |-> f, smtp |-> srv] :
        h \in {PyNone, PyStr(<<"h">>)},
        p \in {PyNone, PyStr(<<"5","8","7">>), PyStr(<<"a","b","c">>)},
        s \in Senders,
        r \in {PyNone, PyStr(<<"a","@","x",","," ",",","b","@","y">>)},
        r1 \in {PyNone, PyStr(<<"r","@","x">>)},
        f \in ReportFiles, srv \in Servers}

InitSession ==
    /\ InitReporter /\ IdleClassify /\ IdleFeature /\ IdleRun
    /\ env \in SessionEnvs
    /\ mail = NoMail
    /\ plugins = {}
    /\ session = [NoSession EXCEPT !.phase = "startup"]
    /\ IdleUtilities

Configure ==
    /\ session.phase = "startup"
    /\ pytest_configure
    /\ UNCHANGED <<reporterVars, classifyVars, featureVars, calls, runVars, mailVars, utilityVars>>

\* the call phase of the next test case runs; pytest hands its report to the
\* reporter if the reporter is a registered plugin
RunTestCase ==
    /\ session.phase = "running"
    /\ session.tests < NumTests
    /\ \E report \in SendReports :
          IF Registered(ReporterPlugin)
          THEN /\ pytest_runtest_logreport(report)
               /\ session' = [session EXCEPT !.tests = @ + 1,
                                             !.calls = Append(@, "pytest_runtest_logreport")]
          ELSE /\ session' = [session EXCEPT !.tests = @ + 1]
               /\ UNCHANGED reporterVars
    /\ UNCHANGED <<classifyVars, featureVars, calls, runVars, mailVars, plugins, utilityVars>>

TerminalSummary ==
    /\ session.phase = "running"
    /\ pytest_terminal_summary
    /\ UNCHANGED <<classifyVars, featureVars, calls, runVars, utilityVars>>

NextSession == Configure \/ RunTestCase \/ TerminalSummary

SpecSession == InitSession /\ [][NextSession]_vars

(***************************************************************************)
(* Properties of the session                                               *)
(***************************************************************************)
\* the reporter calls of a complete session that ran n call phases
ExpectedCalls(n) ==
    <<"session_start">> \o [i \in 1..n |-> "pytest_runtest_logreport"]
        \o <<"session_end", "generate_html", "send_email">>

\* C11: in a run driven by conftest the reporter is registered and receives one
\* session_start, one pytest_runtest_logreport per call phase, then one
\* session_end followed by generate_html and send_email; every call phase of the
\* run is recorded, all of them before session_end.
C11_ReporterDrivenBySession ==
    session.phase = "done" =>
        /\ Registered(ReporterPlugin)
        /\ session.calls = ExpectedCalls(session.tests)
        /\ Len(test_executions) = session.tests
        /\ start_time # NoTime /\ end_time # NoTime

\* some setting send_email_with_report reads is unset, or the report file is missing
SummaryInputMissing ==
    \/ env.environ["SMTP_HOST"].none
    \/ env.environ["SMTP_PORT"].none
    \/ env.environ["SENDER_EMAIL"].none
    \/ (env.environ["EMAIL_RECEIVER_LIST"].none /\ env.environ["RECEIVER_EMAIL"].none)
    \/ env.report_file = "missing"

\* C20: pytest_terminal_summary returns normally whatever is unset or missing:
\* the condition is logged and the dispatch is skipped or made without the
\* attachment.
C20_SummaryNeverRaises ==
    op = "pytest_terminal_summary" =>
        /\ raised = "none"
        /\ session.exit = "tests"
        /\ SummaryInputMissing =>
              /\ Len(log) > 1
              /\ \A i \in 1..Len(mail.sendmails) :
                    env.report_file = "missing" => mail.sendmails[i].message.attachments = 0

(***************************************************************************)
(* Properties of the recorded outcomes                                     *)
(***************************************************************************)
\* the status labels that occur in the recorded outcomes
RecordedStatuses == {test_executions[k].status : k \in 1..Len(test_executions)}

CountersMatchRecords ==
    /\ RecordedStatuses \subseteq DOMAIN stats
    /\ \A s \in DOMAIN stats : stats[s] = Cardinality(RecordedWith(s))
    /\ \A s \in DOMAIN stats : stats[s] >= 0
    /\ SumOver(stats, DOMAIN stats) = Len(test_executions)

CountersNeverDecrease ==
    \A s \in DOMAIN stats : s \in DOMAIN stats' /\ stats'[s] >= stats[s]

IsPrefix(s, t) == Len(s) <= Len(t) /\ SubSeq(t, 1, Len(s)) = s

\* C24: test_executions is append-only: a call-phase report appends one record,
\* for that report, at the end; no reporter operation modifies, removes or
\* reorders the records already present.
C24_AppendOnly ==
    [][ /\ IsPrefix(test_executions, test_executions')
        /\ Len(test_executions') <= Len(test_executions) + 1
        /\ (op' = "pytest_runtest_logreport" /\ delivered'.when = "call") =>
              /\ Len(test_executions') = Len(test_executions) + 1
              /\ test_executions'[Len(test_executions')].status = delivered'.outcome
        /\ op' # "pytest_runtest_logreport" => test_executions' = test_executions
      ]_vars

\* three outcomes recorded in arrival order, the last one different from the first
C24_Witness ==
    /\ op = "pytest_runtest_logreport" /\ delivered.when = "call"
    /\ Len(test_executions) = 3
    /\ test_executions[1].status = "failed"
    /\ test_executions[2].status = "passed"
    /\ test_executions[3].status = "skipped"
    /\ test_executions[1].nodeid # test_executions[3].nodeid

\* the failure categories classify_error can return
Categories == {"AssertionError", "TimeoutError", "LocatorError", "TestDataError",
               "ConnectionError", "PermissionError", "UnknownError"}

\* C25: a recorded outcome carries a failure category exactly when its status is
\* 'failed': the reason of a failed record is one of the seven categories, the
\* reason of any other record is '-'.
C25_ReasonIffFailed ==
    \A k \in 1..Len(test_executions) :
        IF test_executions[k].status = "failed"
        THEN test_executions[k].reason \in Categories
        ELSE test_executions[k].reason = "-"

\* a failed outcome classified from its traceback, one classified without a
\* traceback, and an outcome that did not fail
C25_Witness ==
    /\ Len(test_executions) = 3
    /\ test_executions[1].status = "failed" /\ test_executions[1].reason = "AssertionError"
    /\ test_executions[2].status = "failed" /\ test_executions[2].reason = "UnknownError"
    /\ test_executions[3].status = "rerun" /\ test_executions[3].reason = "-"

\* the feature values among the recorded outcomes
RecordedFeatures == {test_executions[k].feature : k \in 1..Len(test_executions)}

\* a comes before b in lexicographic order of the characters' code points
LexBefore(a, b) ==
    LET common == {n \in 0..Len(a) : n <= Len(b) /\ SubSeq(a, 1, n) = SubSeq(b, 1, n)}
        n      == SetMax(common)
    IN  IF n = Len(a) THEN Len(b) > n
        ELSE n < Len(b) /\ CodePoint(a[n + 1]) < CodePoint(b[n + 1])

\* C26: the feature table of generate_html has one row per distinct feature among
\* the recorded outcomes, in ascending lexicographic order of the feature key,
\* whatever the order the outcomes were recorded in.
C26_FeatureRowsSorted ==
    op = "generate_html" =>
        /\ {html.feature_rows[i].feature : i \in 1..Len(html.feature_rows)} = RecordedFeatures
        /\ Len(html.feature_rows) = Cardinality(RecordedFeatures)
        /\ \A i \in 1..(Len(html.feature_rows) - 1) :
              LexBefore(html.feature_rows[i].feature, html.feature_rows[i + 1].feature)

\* the later feature was recorded first and is rendered second
C26_Witness ==
    /\ op = "generate_html"
    /\ Len(test_executions) = 2
    /\ test_executions[1].feature = <<"t",".","p","y",":",":","g">>
    /\ test_executions[2].feature = <<"A",":",":","m">>
    /\ Len(html.feature_rows) = 2
    /\ html.feature_rows[1].feature = <<"A",":",":","m">>
    /\ html.feature_rows[2].feature = <<"t",".","p","y",":",":","g">>

(***************************************************************************)
(* SpecBreakdown: failures of several categories, then the rendering       *)
(***************************************************************************)
BreakdownReports ==
    {Report("call", "failed", <<"t",".","p","y",":",":","g">>, l) :
        l \in {PyStr(<<"a","s","s","e","r","t"," ","1"," ","=","="," ","2">>), PyStr(<<"T","i","m","e","o","u","t">>), PyNone}}
    \cup {Report("call", "passed", <<"t",".","p","y",":",":","g">>, PyNone)}

RecordOutcome ==
    /\ Len(test_executions) < MaxFailures
    /\ op # "generate_html"
    /\ \E report \in BreakdownReports : pytest_runtest_logreport(report)
    /\ UNCHANGED <<classifyVars, featureVars, calls, runVars, mailVars, sessionVars, utilityVars>>

RenderBreakdown ==
    /\ op # "generate_html"
    /\ GenerateHtml
    /\ UNCHANGED <<classifyVars, featureVars, calls, runVars, mailVars, sessionVars, utilityVars>>

NextBreakdown == RecordOutcome \/ RenderBreakdown

SpecBreakdown == Init /\ [][NextBreakdown]_vars

\* the recorded outcomes that failed with the given category
FailedWith(reason) ==
    {k \in 1..Len(test_executions) :
        test_executions[k].status = "failed" /\ test_executions[k].reason = reason}

FailedCategories == {c \in Categories : FailedWith(c) # {}}

\* C27: the failure breakdown of generate_html has one row per category that
\* occurred, with its count, ordered by count non-increasing and, among equal
\* counts, by first occurrence; the no-failures placeholder is rendered exactly
\* when no failed outcome was recorded.
C27_FailureBreakdown ==
    op = "generate_html" =>
        LET rows == html.failure_rows
        IN  /\ {rows[i].reason : i \in 1..Len(rows)} = FailedCategories
            /\ Len(rows) = Cardinality(FailedCategories)
            /\ \A i \in 1..Len(rows) : rows[i].count = Cardinality(FailedWith(rows[i].reason))
            /\ \A i \in 1..(Len(rows) - 1) :
                  \/ rows[i].count > rows[i + 1].count
                  \/ /\ rows[i].count = rows[i + 1].count
                     /\ SetMin(FailedWith(rows[i].reason)) < SetMin(FailedWith(rows[i + 1].reason))
            /\ html.no_failures_row <=> RecordedWith("failed") = {}
            /\ html.no_failures_row => rows = <<>>

\* the category that occurred second, but twice, is rendered first
C27_Witness ==
    /\ op = "generate_html"
    /\ Len(test_executions) = 3
    /\ test_executions[1].reason = "UnknownError"
    /\ test_executions[2].reason = "AssertionError"
    /\ test_executions[3].reason = "AssertionError"
    /\ html.failure_rows = <<[reason |-> "AssertionError", count |-> 2],
                             [reason |-> "UnknownError", count |-> 1]>>
    /\ ~html.no_failures_row

\* the test-method segment of an identifier: its last "::" segment without the
\* parameterization suffix
MethodSegment(id) ==
    LET parts == split(id, <<":",":">>)
    IN  strip_params(parts[Len(parts)])

\* C28: two identifiers of the same file whose test-method segments differ never
\* derive the same feature, also when they have more than three segments
\* (methods of a nested class).
C28_MethodsDistinguished ==
    pcF = "done" =>
        \A other \in Items :
            (other.file = item.file /\ MethodSegment(NodeId(other)) # MethodSegment(nodeid))
                => normalize_feature(NodeId(other)) # feature

(***************************************************************************)
(* utilities/assertions.py: class Assertions                               *)
(*                                                                         *)
(* Scores and thresholds are modelled in hundredths: 70 is the float 0.7,  *)
(* 300 the rubric score 3.                                                 *)
(***************************************************************************)
\* a score or None
Num(n)  == [none |-> FALSE, num |-> n]
NoScore == [none |-> TRUE, num |-> 0]

\* how a call ended: the value it returned, or the exception it raised
Returned(v) == [done |-> TRUE, exc |-> "none", value |-> v]
Raised(e)   == [done |-> TRUE, exc |-> e, value |-> NoScore]

\* assert condition, message
AssertThat(condition) == IF condition THEN Returned(NoScore) ELSE Raised("AssertionError")

assert_context_precision(score, threshold)     == AssertThat(score > threshold)
assert_context_recall(score, threshold)        == AssertThat(score > threshold)
assert_answer_relevancy(score, threshold)      == AssertThat(score > threshold)
assert_factual_correctness(score, threshold)   == AssertThat(score > threshold)
assert_faithfulness(score, threshold)          == AssertThat(score > threshold)
assert_rubric(score, threshold)                == AssertThat(score >= threshold)
assert_top_adherence(score, threshold)         == AssertThat(score >= threshold)
assert_conversational_memory(score, threshold) == AssertThat(score >= threshold)

AspectKey == "forgetfulness_aspect_critic"

\* score_list[0] if score_list else None; then score['forgetfulness_aspect_critic']:
\* subscripting None is a TypeError, a dict without the key a KeyError
assert_aspect_critic(result, threshold) ==
    IF result.scores = <<>> THEN Raised("TypeError")
    ELSE LET entry == result.scores[1]
         IN  IF AspectKey \notin DOMAIN entry THEN Raised("KeyError")
             ELSE LET score == entry[AspectKey]
                  IN  IF score.none THEN Raised("ValueError")
                      ELSE IF score.num > threshold THEN Returned(score)
                      ELSE Raised("AssertionError")

\* the methods that log the threshold and the score before checking
LoggingChecks ==
    {"assert_context_precision", "assert_context_recall", "assert_answer_relevancy",
     "assert_factual_correctness", "assert_faithfulness", "assert_rubric",
     "assert_top_adherence", "assert_conversational_memory"}

\* the default of the threshold parameter
DefaultThreshold(method) ==
    IF method = "assert_rubric" THEN 300
    ELSE IF method \in {"assert_top_adherence", "assert_conversational_memory"} THEN 80
    ELSE 70

Threshold(c) == IF c.threshold.none THEN DefaultThreshold(c.method) ELSE c.threshold.num

CallAssertion(c) ==
    LET t == Threshold(c)
    IN  CASE c.method = "assert_context_precision"     -> assert_context_precision(c.score, t)
          [] c.method = "assert_context_recall"        -> assert_context_recall(c.score, t)
          [] c.method = "assert_answer_relevancy"      -> assert_answer_relevancy(c.score, t)
          [] c.method = "assert_factual_correctness"   -> assert_factual_correctness(c.score, t)
          [] c.method = "assert_faithfulness"          -> assert_faithfulness(c.score, t)
          [] c.method = "assert_rubric"                -> assert_rubric(c.score, t)
          [] c.method = "assert_top_adherence"         -> assert_top_adherence(c.score, t)
          [] c.method = "assert_conversational_memory" -> assert_conversational_memory(c.score, t)
          [] c.method = "assert_aspect_critic"         -> assert_aspect_critic(c.result, t)

(***************************************************************************)
(* SpecAssert: one assert_* call                                           *)
(***************************************************************************)
Scores == {0, 50, 69, 70, 71, 80, 90, 100, 200, 300, 400}

ThresholdArgs == {NoScore, Num(50), Num(90)}

ScoreDicts ==
    {(AspectKey :> NoScore), (AspectKey :> Num(69)), (AspectKey :> Num(70)),
     (AspectKey :> Num(71)), ("other_aspect_critic" :> Num(100))}

\* result.scores of an EvaluationResult: one dict per evaluated sample
ScoreLists ==
    {<<>>} \cup {<<d>> : d \in ScoreDicts} \cup {<<d, (AspectKey :> Num(100))>> : d \in ScoreDicts}

NoResult == [scores |-> <<>>]

Checks ==
    {[made |-> TRUE, method |-> m, score |-> s, result |-> NoResult, threshold |-> t] :
        m \in LoggingChecks, s \in Scores, t \in ThresholdArgs}
    \cup
    {[made |-> TRUE, method |-> "assert_aspect_critic", score |-> 0,
      result |-> [scores |-> l], threshold |-> t] :
        l \in ScoreLists, t \in ThresholdArgs}

InitAssert ==
    /\ InitReporter /\ IdleClassify /\ IdleFeature /\ IdleRun /\ IdleMail /\ IdleSession
    /\ IdleData /\ IdleScore
    /\ check \in Checks
    /\ verdict = Pending

AssertScore ==
    /\ ~verdict.done
    /\ verdict' = CallAssertion(check)
    /\ log' = IF check.method \in LoggingChecks
              THEN Append(log, LogEntry("info", "expected_threshold", "-", NoTime))
              ELSE log
    /\ UNCHANGED <<stats, failure_reasons, test_executions, start_time, end_time, now, raised,
                   op, delivered, html, check, classifyVars, featureVars, calls, runVars,
                   mailVars, sessionVars, test_data, multiturn, sample, faithfulness>>

NextAssert == AssertScore

SpecAssert == InitAssert /\ [][NextAssert]_vars

\* the call carries a score: always for the plain checks; for assert_aspect_critic
\* when the first entry of result.scores holds a number under the aspect's key
CarriesScore ==
    check.method = "assert_aspect_critic" =>
        /\ check.result.scores # <<>>
        /\ AspectKey \in DOMAIN check.result.scores[1]
        /\ ~check.result.scores[1][AspectKey].none

CheckedScore ==
    IF check.method = "assert_aspect_critic"
    THEN check.result.scores[1][AspectKey].num
    ELSE check.score

\* C21: every assert_* score check passes exactly when score >= threshold; a score
\* equal to the threshold passes and only a lower one raises AssertionError.
C21_PassIffMeetsThreshold ==
    (verdict.done /\ CarriesScore) =>
        /\ verdict.exc \in {"none", "AssertionError"}
        /\ verdict.exc = "none" <=> CheckedScore >= Threshold(check)

\* the result carries no score: result.scores is empty or the aspect's entry is None
CarriesNoScore ==
    \/ check.result.scores = <<>>
    \/ /\ AspectKey \in DOMAIN check.result.scores[1]
       /\ check.result.scores[1][AspectKey].none

\* C22: assert_aspect_critic raises ValueError, and nothing else, whenever the
\* evaluation result carries no score.
C22_NoScoreIsValueError ==
    (verdict.done /\ check.method = "assert_aspect_critic" /\ CarriesNoScore) =>
        verdict.exc = "ValueError"

(***************************************************************************)
(* utilities/ironman.py: IronMan.get_multiturn_conversation_data           *)
(*                                                                         *)
(* A Python dict is a function from its keys; roles and contents are only  *)
(* compared and stored, so they are TLA+ strings.                          *)
(***************************************************************************)
\* what dict.get(key) returns for an absent key
None == "<None>"

index_Last(items, x) == SetMax({i \in 1..Len(items) : items[i] = x})

\* list.index(x): the position of the first item equal to x
index(items, x) == SetMin({i \in 1..Len(items) : items[i] = x})

get_multiturn_conversation_data(data, as_object) ==
    IF data.kind # "dict" THEN Raised("TypeError")
    ELSE IF "conversation" \notin DOMAIN data.dict THEN Raised("ValueError")
    ELSE IF data.dict["conversation"] = <<>> THEN Raised("ValueError")
    ELSE LET items    == data.dict["conversation"]
             unknown  == {i \in 1..Len(items) : Get(items[i], "role", None) \notin {"human", "ai"}}
             humans   == {i \in 1..Len(items) : Get(items[i], "role", None) = "human"}
         IN  IF unknown # {} THEN Raised("ValueError")
             ELSE IF as_object
             THEN IF humans = {} THEN Raised("ValueError")
                  ELSE LET first_human       == items[SetMin(humans)]
                           first_human_index == index(items, first_human)
                       IN  Returned([question     |-> Get(first_human, "content", ""),
                                     chat_history |-> SubSeq(items, first_human_index + 1,
                                                             Len(items))])
             ELSE Returned([conversation |->
                                [i \in 1..Len(items) |->
                                    [type    |-> items[i]["role"],
                                     content |-> Get(items[i], "content", "")]],
                            reference |-> Get(data.dict, "reference", "")])

(***************************************************************************)
(* SpecData: one get_multiturn_conversation_data call                      *)
(***************************************************************************)
ConversationItems ==
    [role : {"human", "ai", "system"}, content : {"hi", "ok"}] \cup {[content |-> "hi"]}

RECURSIVE Conversations(_)
Conversations(n) ==
    IF n = 0 THEN {<<>>}
    ELSE Conversations(n - 1)
            \cup {Append(c, it) : c \in {d \in Conversations(n - 1) : Len(d) = n - 1},
                                  it \in ConversationItems}

TestData ==
    {[kind |-> "list", dict |-> <<>>], [kind |-> "dict", dict |-> ("reference" :> "ref")]}
    \cup {[kind |-> "dict", dict |-> ("conversation" :> c)] : c \in Conversations(MaxItems)}

InitData ==
    /\ InitReporter /\ IdleClassify /\ IdleFeature /\ IdleRun /\ IdleMail /\ IdleSession
    /\ IdleAssert /\ IdleScore
    /\ \E d \in TestData, o \in BOOLEAN : test_data = [made |-> TRUE, data |-> d, as_object |-> o]
    /\ multiturn = Pending

LoadConversation ==
    /\ ~multiturn.done
    /\ multiturn' = get_multiturn_conversation_data(test_data.data, test_data.as_object)
    /\ UNCHANGED <<reporterVars, classifyVars, featureVars, calls, runVars, mailVars,
                   sessionVars, check, verdict, test_data, sample, faithfulness>>

NextData == LoadConversation

SpecData == InitData /\ [][NextData]_vars

\* the conversation of the argument, <<>> when it has none
GivenConversation ==
    IF test_data.data.kind = "dict" /\ "conversation" \in DOMAIN test_data.data.dict
    THEN test_data.data.dict["conversation"]
    ELSE <<>>

RoleOf(it) == IF "role" \in DOMAIN it THEN it["role"] ELSE None

HumanItems == {i \in 1..Len(GivenConversation) : RoleOf(GivenConversation[i]) = "human"}

\* C29: with as_object=True, a dict with a non-empty conversation of human and ai
\* items, one of them human, gives question = the content of the first human item
\* and chat_history = the items after it, in order; a non-dict raises TypeError; a
\* missing or empty conversation, another role, or no human item raises ValueError.
C29_QuestionAndHistory ==
    (multiturn.done /\ test_data.as_object) =>
        IF test_data.data.kind # "dict"
        THEN multiturn.exc = "TypeError"
        ELSE IF \/ GivenConversation = <<>>
                \/ \E i \in 1..Len(GivenConversation) :
                      RoleOf(GivenConversation[i]) \notin {"human", "ai"}
                \/ HumanItems = {}
        THEN multiturn.exc = "ValueError"
        ELSE LET h == SetMin(HumanItems)
             IN  /\ multiturn.exc = "none"
                 /\ multiturn.value.question = GivenConversation[h]["content"]
                 /\ multiturn.value.chat_history
                        = [i \in 1..(Len(GivenConversation) - h) |-> GivenConversation[h + i]]

\* an ai item before the first human item is dropped; an item equal to the first
\* human item comes later and stays in the history
C29_Witness ==
    /\ multiturn.done /\ test_data.as_object
    /\ GivenConversation = <<[role |-> "ai", content |-> "ok"],
                             [role |-> "human", content |-> "hi"],
                             [role |-> "human", content |-> "hi"]>>
    /\ multiturn.exc = "none"
    /\ multiturn.value.question = "hi"
    /\ multiturn.value.chat_history = <<[role |-> "human", content |-> "hi"]>>

(***************************************************************************)
(* llm_base/ragas_metrics_evaluator.py:                                    *)
(* MetricsEvaluator.get_multiturn_faithfulness_score                       *)
(*                                                                         *)
(* The scores the LLM-backed metric gives are an input: metric[k] is what  *)
(* the k-th single_turn_ascore call returns, in hundredths.  The final     *)
(* score is kept as the fraction num / den.                                *)
(***************************************************************************)
turn_context_First(contexts, turn_index) ==
    IF contexts # <<>> THEN contexts[1] ELSE <<>>

\* contexts[turn_index] if turn_index < len(contexts) else []   (turn_index from 0)
turn_context(contexts, turn_index) ==
    IF turn_index < Len(contexts) THEN contexts[turn_index + 1] ELSE <<>>

\* the loop of lines 241-265 from message index i (from 0) on: the single-turn
\* samples handed to the metric, each with the score it got
RECURSIVE ScoredTurns(_, _, _, _, _)
ScoredTurns(messages, contexts, metric, i, turn_index) ==
    IF i >= Len(messages) \/ i + 1 >= Len(messages) THEN <<>>
    ELSE <<[user_input         |-> messages[i + 1].content,
            response           |-> messages[i + 2].content,
            retrieved_contexts |-> turn_context(contexts, turn_index),
            score              |-> metric[turn_index + 1]]>>
         \o ScoredTurns(messages, contexts, metric, i + 2, turn_index + 1)

\* sum(turn_scores) / len(turn_scores) if turn_scores else 0.0
Mean(turns) ==
    IF turns = <<>> THEN [num |-> 0, den |-> 1]
    ELSE [num |-> SumOver([k \in 1..Len(turns) |-> turns[k].score], 1..Len(turns)),
          den |-> Len(turns)]

get_multiturn_faithfulness_score(s) ==
    LET contexts == IF s.has_contexts THEN s.retrieved_contexts ELSE <<>>
        turns    == ScoredTurns(s.user_input, contexts, s.metric, 0, 0)
    IN  Returned([turns |-> turns, final_score |-> Mean(turns)])

(***************************************************************************)
(* SpecScore: one get_multiturn_faithfulness_score call                    *)
(***************************************************************************)
SampleMessages == [type : {"human", "ai"}, content : {"m1", "m2"}]

RECURSIVE Dialogues(_)
Dialogues(n) ==
    IF n = 0 THEN {<<>>}
    ELSE Dialogues(n - 1)
            \cup {Append(c, m) : c \in {d \in Dialogues(n - 1) : Len(d) = n - 1},
                                 m \in SampleMessages}

\* retrieved_contexts: one list of documents per turn
ContextLists == {<<>>, <<<<"doc1">>>>, <<<<"doc1">>, <<"doc2", "doc3">>>>}

\* what the metric returns call by call
MetricScores == [1..(MaxMessages \div 2) -> {0, 100}]

Samples ==
    {[made |-> TRUE, user_input |-> d, has_contexts |-> TRUE, retrieved_contexts |-> c,
      metric |-> m] : d \in Dialogues(MaxMessages), c \in ContextLists, m \in MetricScores}
    \cup
    {[made |-> TRUE, user_input |-> d, has_contexts |-> FALSE, retrieved_contexts |-> <<>>,
      metric |-> m] : d \in Dialogues(MaxMessages), m \in MetricScores}

InitScore ==
    /\ InitReporter /\ IdleClassify /\ IdleFeature /\ IdleRun /\ IdleMail /\ IdleSession
    /\ IdleAssert /\ IdleData
    /\ sample \in Samples
    /\ faithfulness = Pending

ScoreFaithfulness ==
    /\ ~faithfulness.done
    /\ faithfulness' = get_multiturn_faithfulness_score(sample)
    /\ UNCHANGED <<reporterVars, classifyVars, featureVars, calls, runVars, mailVars,
                   sessionVars, check, verdict, test_data, multiturn, sample>>

NextScore == ScoreFaithfulness

SpecScore == InitScore /\ [][NextScore]_vars

\* C30: for a conversation of n messages get_multiturn_faithfulness_score scores
\* floor(n/2) turns; the k-th turn (k from 0) is message 2k as user input and
\* message 2k+1 as response, with retrieved_contexts[k] if it exists and no
\* context otherwise; the result is the mean of the turn scores, 0.0 if n < 2.
C30_TurnsAndMean ==
    faithfulness.done =>
        LET n     == Len(sample.user_input)
            turns == faithfulness.value.turns
            final == faithfulness.value.final_score
        IN  /\ faithfulness.exc = "none"
            /\ Len(turns) = n \div 2
            /\ \A k \in 0..((n \div 2) - 1) :
                  /\ turns[k + 1].user_input = sample.user_input[2 * k + 1].content
                  /\ turns[k + 1].response = sample.user_input[2 * k + 2].content
                  /\ turns[k + 1].retrieved_contexts
                        = (IF sample.has_contexts /\ k + 1 <= Len(sample.retrieved_contexts)
                           THEN sample.retrieved_contexts[k + 1]
                           ELSE <<>>)
                  /\ turns[k + 1].score = sample.metric[k + 1]
            /\ IF n < 2 THEN final.num = 0
               ELSE final.num * (n \div 2)
                       = final.den * SumOver([k \in 1..(n \div 2) |-> sample.metric[k]],
                                             1..(n \div 2))
            /\ final.den > 0

\* two turns with their own contexts and different scores, mean 0.5
C30_Witness ==
    /\ faithfulness.done
    /\ Len(sample.user_input) = 4
    /\ sample.has_contexts /\ Len(sample.retrieved_contexts) = 2
    /\ sample.metric[1] = 100 /\ sample.metric[2] = 0
    /\ Len(faithfulness.value.turns) = 2
    /\ faithfulness.value.turns[2].retrieved_contexts = <<"doc2", "doc3">>
    /\ faithfulness.value.final_score = [num |-> 100, den |-> 2]
====
